---- MODULE Spec2Model ----
(***************************************************************************)
(* Route resolution service of the API gateway                             *)
(* (internal/app/route/service.go): a cache-aside lookup of routes over a  *)
(* key/value cache with TTL and a route repository.                        *)
(*                                                                         *)
(* Spec     : the operations run one after another, every cache and        *)
(*            repository call may fail.                                    *)
(* SpecTTL  : the same with the minutes passing and the entries expiring.  *)
(* SpecConc : concurrent callers, one cache or repository call at a time.  *)
(***************************************************************************)
EXTENDS Integers, Sequences, FiniteSets, TLC

\* ------------------------------------------------------------------ data

\* Registered path patterns and the literal request paths of the model.
Patterns == {"/a/*", "/a/b"}
Paths == {"/a/b", "/a/c"}
Methods == {"POST"}

\* time.Minute units of the TTL passed to every cache.Set (5*time.Minute).
TTL == 5

\* Largest call count the metrics of a route reach in the model.
MaxCalls == 1
\* Most call sites that fail within one operation.
MaxFaults == 1

NoRoute ==
    [path |-> "", serviceURL |-> "", methods |-> {}, isActive |-> FALSE,
     callCount |-> 0, totalResponseTime |-> 0]

Route(p, url, ms, active) ==
    [path |-> p, serviceURL |-> url, methods |-> ms, isActive |-> active,
     callCount |-> 0, totalResponseTime |-> 0]

\* model.Route values handed to AddRoute / UpdateRoute: the wildcard route in
\* two versions, the exact route in one.
RouteInputs ==
    { Route("/a/*", "http://s1", {"GET", "POST"}, TRUE),
      Route("/a/*", "http://s2", {}, FALSE),
      Route("/a/b", "http://s3", {"GET"}, TRUE) }

\* Paths whose metrics are reported, with the increments reported.
MetricPaths == {"/a/b"}
CallIncrement == 1
ResponseTimeIncrement == 7

\* model.MatchRoutePath(registered, request): equal paths match, and a
\* trailing wildcard matches the paths below its prefix.
MatchRoutePath(pattern, path) ==
    \/ pattern = path
    \/ pattern = "/a/*" /\ path \in {"/a/b", "/a/c"}

RouteKey(path) == "route:" \o path
ListKey == "routes"

Range(s) == { s[i] : i \in 1..Len(s) }
PathsOf(s) == { s[i].path : i \in 1..Len(s) }

\* ------------------------------------------------------------------ cache port
\* The cache is a partial map key -> [val, ttl], ttl the minutes the entry
\* has left; an entry is readable until its ttl has run out.

CacheFound(c, key) == key \in DOMAIN c

CacheSet(c, key, value, ttl) ==
    [k \in DOMAIN c \cup {key} |->
        IF k = key THEN [val |-> value, ttl |-> ttl] ELSE c[k]]

CacheDelete(c, key) == [k \in DOMAIN c \ {key} |-> c[k]]

\* One minute passes: every entry loses a minute, and the backend drops the
\* entries whose ttl has run out.
CacheExpire(c) ==
    [k \in { j \in DOMAIN c : c[j].ttl > 1 } |-> [c[k] EXCEPT !.ttl = @ - 1]]

\* ------------------------------------------------------------------ repository port
\* The repository is the ordered list of routes, paths unique.

RepoAdd(rp, r) == Append(rp, r)

RepoUpdate(rp, r) ==
    [i \in 1..Len(rp) |->
        IF rp[i].path = r.path
        THEN [r EXCEPT !.callCount = rp[i].callCount,
                       !.totalResponseTime = rp[i].totalResponseTime]
        ELSE rp[i]]

RepoDelete(rp, path) == SelectSeq(rp, LAMBDA r : r.path # path)

RepoUpdateMetrics(rp, path, cc, trt) ==
    [i \in 1..Len(rp) |->
        IF rp[i].path = path
        THEN [rp[i] EXCEPT !.callCount = @ + cc, !.totalResponseTime = @ + trt]
        ELSE rp[i]]

\* ------------------------------------------------------------------ results

Call(fn, arg) == <<fn, arg>>

\* What one operation leaves behind: the cache and repository after it, the
\* values it returns, the collaborator calls it made in order, and the call
\* sites at which a failure was met.
Outcome(c, rp, err, route, routes, allowed, calls, failed) ==
    [cache |-> c, repo |-> rp, err |-> err, route |-> route, routes |-> routes,
     allowed |-> allowed, calls |-> calls, failed |-> failed]

\* ------------------------------------------------------------------ Service
\* Every operation takes the cache c, the repository rp and the set f of its
\* call sites that fail, and yields an Outcome.

NIL == "nil"
ErrRouteNotFound == "ErrRouteNotFound"
RepositoryError == "RepositoryError"
CacheError == "CacheError"

GetRoutesSites == {"getList", "repo", "setList"}

\* GetRoutes with the list written back under twice the TTL.
GetRoutesLongTTL(c, rp, f) ==
    LET get == <<Call("cache.Get", ListKey)>>
    IN  IF "getList" \in f
        THEN Outcome(c, rp, CacheError, NoRoute, <<>>, FALSE, get, {"getList"})
        ELSE IF CacheFound(c, ListKey)
        THEN Outcome(c, rp, NIL, NoRoute, c[ListKey].val, FALSE, get, {})
        ELSE IF "repo" \in f
        THEN Outcome(c, rp, RepositoryError, NoRoute, <<>>, FALSE,
                     get \o <<Call("repo.GetRoutes", "")>>, {"repo"})
        ELSE Outcome(IF "setList" \in f THEN c ELSE CacheSet(c, ListKey, rp, 2 * TTL),
                     rp, NIL, NoRoute, rp, FALSE,
                     get \o <<Call("repo.GetRoutes", ""), Call("cache.Set", ListKey)>>,
                     f \cap {"setList"})

GetRoutes(c, rp, f) ==
    LET get == <<Call("cache.Get", ListKey)>>
    IN  IF "getList" \in f
        THEN Outcome(c, rp, CacheError, NoRoute, <<>>, FALSE, get, {"getList"})
        ELSE IF CacheFound(c, ListKey)
        THEN Outcome(c, rp, NIL, NoRoute, c[ListKey].val, FALSE, get, {})
        ELSE IF "repo" \in f
        THEN Outcome(c, rp, RepositoryError, NoRoute, <<>>, FALSE,
                     get \o <<Call("repo.GetRoutes", "")>>, {"repo"})
        ELSE Outcome(IF "setList" \in f THEN c ELSE CacheSet(c, ListKey, rp, TTL),
                     rp, NIL, NoRoute, rp, FALSE,
                     get \o <<Call("repo.GetRoutes", ""), Call("cache.Set", ListKey)>>,
                     f \cap {"setList"})

\* FirstMatch with the scan keeping the last route that matches.
LastMatch(routes, path) ==
    IF \E i \in 1..Len(routes) : MatchRoutePath(routes[i].path, path)
    THEN CHOOSE i \in 1..Len(routes) :
            /\ MatchRoutePath(routes[i].path, path)
            /\ \A j \in (i + 1)..Len(routes) : ~MatchRoutePath(routes[j].path, path)
    ELSE 0

\* FirstMatch with the matcher's verdict ignored: the head of the list.
FirstRoute(routes, path) == IF Len(routes) > 0 THEN 1 ELSE 0

\* Index of the first route of the list whose pattern matches path, 0 if none.
FirstMatch(routes, path) ==
    IF \E i \in 1..Len(routes) : MatchRoutePath(routes[i].path, path)
    THEN CHOOSE i \in 1..Len(routes) :
            /\ MatchRoutePath(routes[i].path, path)
            /\ \A j \in 1..(i - 1) : ~MatchRoutePath(routes[j].path, path)
    ELSE 0

\* ScanRoutes with the head of the list written under the requested path.
ScanRoutesCachesHead(c, rp, path, routes, f, calls, failed) ==
    LET i == FirstMatch(routes, path)
        n == IF i = 0 THEN Len(routes) ELSE i
        matches == [k \in 1..n |-> Call("MatchRoutePath", routes[k].path)]
    IN  IF i = 0
        THEN Outcome(c, rp, ErrRouteNotFound, NoRoute, <<>>, FALSE,
                     calls \o matches, failed)
        ELSE Outcome(IF "setRoute" \in f THEN c
                     ELSE CacheSet(c, RouteKey(path), routes[1], TTL),
                     rp, NIL, routes[i], <<>>, FALSE,
                     calls \o matches \o <<Call("cache.Set", RouteKey(path))>>,
                     failed \cup (f \cap {"setRoute"}))

\* ScanRoutes with a lookup that found nothing cached as well.
ScanRoutesNegativeCache(c, rp, path, routes, f, calls, failed) ==
    LET i == FirstMatch(routes, path)
        n == IF i = 0 THEN Len(routes) ELSE i
        matches == [k \in 1..n |-> Call("MatchRoutePath", routes[k].path)]
        found == IF i = 0 THEN NoRoute ELSE routes[i]
    IN  Outcome(IF "setRoute" \in f THEN c
                ELSE CacheSet(c, RouteKey(path), found, TTL),
                rp, IF i = 0 THEN ErrRouteNotFound ELSE NIL, found, <<>>, FALSE,
                calls \o matches \o <<Call("cache.Set", RouteKey(path))>>,
                failed \cup (f \cap {"setRoute"}))

\* ScanRoutes with the individual entry keyed by the registered pattern.
ScanRoutesKeyedByPattern(c, rp, path, routes, f, calls, failed) ==
    LET i == FirstMatch(routes, path)
        n == IF i = 0 THEN Len(routes) ELSE i
        matches == [k \in 1..n |-> Call("MatchRoutePath", routes[k].path)]
    IN  IF i = 0
        THEN Outcome(c, rp, ErrRouteNotFound, NoRoute, <<>>, FALSE,
                     calls \o matches, failed)
        ELSE Outcome(IF "setRoute" \in f THEN c
                     ELSE CacheSet(c, RouteKey(routes[i].path), routes[i], TTL),
                     rp, NIL, routes[i], <<>>, FALSE,
                     calls \o matches \o <<Call("cache.Set", RouteKey(routes[i].path))>>,
                     failed \cup (f \cap {"setRoute"}))

\* The loop over routes: the matcher calls it makes, then the cache write.
ScanRoutes(c, rp, path, routes, f, calls, failed) ==
    LET i == FirstMatch(routes, path)
        n == IF i = 0 THEN Len(routes) ELSE i
        matches == [k \in 1..n |-> Call("MatchRoutePath", routes[k].path)]
    IN  IF i = 0
        THEN Outcome(c, rp, ErrRouteNotFound, NoRoute, <<>>, FALSE,
                     calls \o matches, failed)
        ELSE Outcome(IF "setRoute" \in f THEN c
                     ELSE CacheSet(c, RouteKey(path), routes[i], TTL),
                     rp, NIL, routes[i], <<>>, FALSE,
                     calls \o matches \o <<Call("cache.Set", RouteKey(path))>>,
                     failed \cup (f \cap {"setRoute"}))

GetRouteByPathSites == {"getRoute", "getList", "repo", "setList", "setRoute"}

\* The list tier of GetRouteByPath, entered after a miss or an error of the
\* individual cache.
ResolveFromList(c, rp, path, f, calls, failed) ==
    LET get == calls \o <<Call("cache.Get", ListKey)>>
    IN  IF "getList" \in f
        THEN ScanRoutes(c, rp, path, <<>>, f, get, failed \cup {"getList"})
        ELSE IF CacheFound(c, ListKey)
        THEN ScanRoutes(c, rp, path, c[ListKey].val, f, get, failed)
        ELSE IF "repo" \in f
        THEN Outcome(c, rp, RepositoryError, NoRoute, <<>>, FALSE,
                     get \o <<Call("repo.GetRoutes", "")>>, failed \cup {"repo"})
        ELSE ScanRoutes(IF "setList" \in f THEN c ELSE CacheSet(c, ListKey, rp, TTL),
                        rp, path, rp, f,
                        get \o <<Call("repo.GetRoutes", ""), Call("cache.Set", ListKey)>>,
                        failed \cup (f \cap {"setList"}))

\* GetRouteByPath with a hit of the individual cache written back under a
\* fresh TTL.
GetRouteByPathRefreshHit(c, rp, path, f) ==
    LET get == <<Call("cache.Get", RouteKey(path))>>
    IN  IF "getRoute" \in f
        THEN ResolveFromList(c, rp, path, f, get, {"getRoute"})
        ELSE IF CacheFound(c, RouteKey(path))
        THEN Outcome(CacheSet(c, RouteKey(path), c[RouteKey(path)].val, TTL),
                     rp, NIL, c[RouteKey(path)].val, <<>>, FALSE, get, {})
        ELSE ResolveFromList(c, rp, path, f, get, {})

\* GetRouteByPath with the hit of the individual cache not taken.
GetRouteByPathSkipHit(c, rp, path, f) ==
    ResolveFromList(c, rp, path, f, <<Call("cache.Get", RouteKey(path))>>,
                    f \cap {"getRoute"})

GetRouteByPath(c, rp, path, f) ==
    LET get == <<Call("cache.Get", RouteKey(path))>>
    IN  IF "getRoute" \in f
        THEN ResolveFromList(c, rp, path, f, get, {"getRoute"})
        ELSE IF CacheFound(c, RouteKey(path))
        THEN Outcome(c, rp, NIL, c[RouteKey(path)].val, <<>>, FALSE, get, {})
        ELSE ResolveFromList(c, rp, path, f, get, {})

\* SweepRoutes with the loop left at the first delete that fails.
RECURSIVE SweepRoutesStopAtFailure(_, _, _, _)
SweepRoutesStopAtFailure(c, routes, i, f) ==
    IF i > Len(routes) \/ RouteKey(routes[i].path) \in f THEN c
    ELSE SweepRoutesStopAtFailure(CacheDelete(c, RouteKey(routes[i].path)),
                                  routes, i + 1, f)

\* The sweep of ClearCache over the routes from index i on: one delete per
\* registered path, a failed delete is skipped.
RECURSIVE SweepRoutes(_, _, _, _)
SweepRoutes(c, routes, i, f) ==
    IF i > Len(routes) THEN c
    ELSE SweepRoutes(IF RouteKey(routes[i].path) \in f THEN c
                     ELSE CacheDelete(c, RouteKey(routes[i].path)),
                     routes, i + 1, f)

ClearCacheSites(rp) == {"delList", "repo"} \cup { RouteKey(p) : p \in PathsOf(rp) }

ClearCache(c, rp, f) ==
    LET del == <<Call("cache.Delete", ListKey)>>
        c1 == CacheDelete(c, ListKey)
    IN  IF "delList" \in f
        THEN Outcome(c, rp, CacheError, NoRoute, <<>>, FALSE, del, {"delList"})
        ELSE IF "repo" \in f
        THEN Outcome(c1, rp, RepositoryError, NoRoute, <<>>, FALSE,
                     del \o <<Call("repo.GetRoutes", "")>>, {"repo"})
        ELSE Outcome(SweepRoutes(c1, rp, 1, f), rp, NIL, NoRoute, <<>>, FALSE,
                     del \o <<Call("repo.GetRoutes", "")>>
                         \o [i \in 1..Len(rp) |-> Call("cache.Delete", RouteKey(rp[i].path))],
                     f \cap { RouteKey(p) : p \in PathsOf(rp) })

MutationSites == {"repo", "delRoute", "delList"}

\* AddRoute with the added route written through to its individual entry.
AddRouteWriteThrough(c, rp, route, f) ==
    LET add == <<Call("repo.AddRoute", route.path)>>
        c1 == CacheSet(c, RouteKey(route.path), route, TTL)
    IN  IF "repo" \in f \/ route.path \in PathsOf(rp)
        THEN Outcome(c, rp, RepositoryError, NoRoute, <<>>, FALSE, add, {"repo"})
        ELSE Outcome(IF "delList" \in f THEN c1 ELSE CacheDelete(c1, ListKey),
                     RepoAdd(rp, route), NIL, NoRoute, <<>>, FALSE,
                     add \o <<Call("cache.Delete", ListKey)>>, f \cap {"delList"})

AddRoute(c, rp, route, f) ==
    LET add == <<Call("repo.AddRoute", route.path)>>
    IN  IF "repo" \in f \/ route.path \in PathsOf(rp)
        THEN Outcome(c, rp, RepositoryError, NoRoute, <<>>, FALSE, add, {"repo"})
        ELSE Outcome(IF "delList" \in f THEN c ELSE CacheDelete(c, ListKey),
                     RepoAdd(rp, route), NIL, NoRoute, <<>>, FALSE,
                     add \o <<Call("cache.Delete", ListKey)>>, f \cap {"delList"})

\* Invalidate with every individual entry resolved through the pattern
\* dropped as well.
InvalidateResolved(c, path, f) ==
    LET c1 == IF "delRoute" \in f THEN c
              ELSE [k \in { j \in DOMAIN c : j = ListKey \/ c[j].val.path # path } |-> c[k]]
    IN  IF "delList" \in f THEN c1 ELSE CacheDelete(c1, ListKey)

\* Invalidate with the delete of the list key left out.
InvalidateRouteOnly(c, path, f) ==
    IF "delRoute" \in f THEN c ELSE CacheDelete(c, RouteKey(path))

\* The two invalidations that follow an accepted update or delete of path.
Invalidate(c, path, f) ==
    LET c1 == IF "delRoute" \in f THEN c ELSE CacheDelete(c, RouteKey(path))
    IN  IF "delList" \in f THEN c1 ELSE CacheDelete(c1, ListKey)

InvalidateCalls(path) ==
    <<Call("cache.Delete", RouteKey(path)), Call("cache.Delete", ListKey)>>

\* UpdateRoute with the invalidations issued ahead of the repository call.
UpdateRouteInvalidatesFirst(c, rp, route, f) ==
    LET upd == <<Call("repo.UpdateRoute", route.path)>>
    IN  IF "repo" \in f \/ route.path \notin PathsOf(rp)
        THEN Outcome(Invalidate(c, route.path, f), rp, RepositoryError, NoRoute,
                     <<>>, FALSE, InvalidateCalls(route.path) \o upd, {"repo"})
        ELSE Outcome(Invalidate(c, route.path, f), RepoUpdate(rp, route), NIL,
                     NoRoute, <<>>, FALSE, InvalidateCalls(route.path) \o upd,
                     f \cap {"delRoute", "delList"})

UpdateRoute(c, rp, route, f) ==
    LET upd == <<Call("repo.UpdateRoute", route.path)>>
    IN  IF "repo" \in f \/ route.path \notin PathsOf(rp)
        THEN Outcome(c, rp, RepositoryError, NoRoute, <<>>, FALSE, upd, {"repo"})
        ELSE Outcome(Invalidate(c, route.path, f), RepoUpdate(rp, route), NIL,
                     NoRoute, <<>>, FALSE, upd \o InvalidateCalls(route.path),
                     f \cap {"delRoute", "delList"})

DeleteRoute(c, rp, path, f) ==
    LET del == <<Call("repo.DeleteRoute", path)>>
    IN  IF "repo" \in f \/ path \notin PathsOf(rp)
        THEN Outcome(c, rp, RepositoryError, NoRoute, <<>>, FALSE, del, {"repo"})
        ELSE Outcome(Invalidate(c, path, f), RepoDelete(rp, path), NIL,
                     NoRoute, <<>>, FALSE, del \o InvalidateCalls(path),
                     f \cap {"delRoute", "delList"})

\* UpdateMetrics with the entries of the path invalidated after the update.
UpdateMetricsInvalidates(c, rp, path, callCount, totalResponseTime, f) ==
    LET upd == <<Call("repo.UpdateMetrics", path)>>
    IN  IF "repo" \in f \/ path \notin PathsOf(rp)
        THEN Outcome(c, rp, RepositoryError, NoRoute, <<>>, FALSE, upd, {"repo"})
        ELSE Outcome(Invalidate(c, path, {}),
                     RepoUpdateMetrics(rp, path, callCount, totalResponseTime),
                     NIL, NoRoute, <<>>, FALSE, upd \o InvalidateCalls(path), {})

UpdateMetrics(c, rp, path, callCount, totalResponseTime, f) ==
    LET upd == <<Call("repo.UpdateMetrics", path)>>
    IN  IF "repo" \in f \/ path \notin PathsOf(rp)
        THEN Outcome(c, rp, RepositoryError, NoRoute, <<>>, FALSE, upd, {"repo"})
        ELSE Outcome(c, RepoUpdateMetrics(rp, path, callCount, totalResponseTime),
                     NIL, NoRoute, <<>>, FALSE, upd, {})

\* IsMethodAllowed with an empty method set read as every method allowed.
IsMethodAllowedEmptyAllowsAll(c, rp, path, method, f) ==
    LET got == GetRouteByPath(c, rp, path, f)
    IN  IF got.err # NIL
        THEN [got EXCEPT !.allowed = FALSE, !.route = NoRoute]
        ELSE [got EXCEPT !.allowed = (got.route.methods = {} \/ method \in got.route.methods)]

IsMethodAllowed(c, rp, path, method, f) ==
    LET got == GetRouteByPath(c, rp, path, f)
    IN  IF got.err # NIL
        THEN [got EXCEPT !.allowed = FALSE, !.route = NoRoute]
        ELSE [got EXCEPT !.allowed = method \in got.route.methods]

\* ------------------------------------------------------------------ state

VARIABLES
    cache,   \* the cache backend: key -> [val, ttl]
    repo,    \* the repository: the ordered list of routes
    last,    \* the operation that returned last, with what it returned
    retired, \* route no longer in the repository -> minutes since it left it
    callers  \* concurrent caller -> the operation it is in, where, its locals

vars == <<cache, repo, last, retired, callers>>

\* The routes held by the cache c, in the list or under a route key.
CachedRoutes(c) ==
    UNION { IF k = ListKey THEN Range(c[k].val) ELSE {c[k].val} : k \in DOMAIN c }

\* The routes an operation returned.
ReturnedRoutes(l) == (Range(l.routes) \cup {l.route}) \ {NoRoute}

\* Ages are counted up to this many minutes.
MaxAge == 2 * TTL + 1

\* The ages after a step from repository rp to rp2 in which d minutes
\* passed, of the routes that left the repository and can still be seen: in
\* the cache c2 or in what the operation l2 returned.
Retire(ages, rp, rp2, c2, l2, d) ==
    [r \in ((DOMAIN ages \cup Range(rp)) \ Range(rp2))
                \cap (CachedRoutes(c2) \cup ReturnedRoutes(l2)) |->
        IF r \in DOMAIN ages
        THEN (IF ages[r] + d > MaxAge THEN MaxAge ELSE ages[r] + d)
        ELSE 0]

\* The record of a returned operation: its name and arguments, the keys
\* readable before it, and its Outcome.
Returned(op, path, method, out) ==
    [op |-> op, path |-> path, method |-> method,
     preKeys |-> DOMAIN cache,
     err |-> out.err, route |-> out.route, routes |-> out.routes,
     allowed |-> out.allowed, calls |-> out.calls, failed |-> out.failed]

\* An operation run with the failing sites f returns; f names exactly the
\* failures it met, so that each run of the code is taken once.
Commit(op, path, method, out, f) ==
    \E o \in {out} :
        /\ o.failed = f
        /\ \E l \in {Returned(op, path, method, o)} :
              /\ cache' = o.cache
              /\ repo' = o.repo
              /\ last' = l
              /\ retired' = Retire(retired, repo, o.repo, o.cache, l, 0)
              /\ UNCHANGED callers

EmptyCache == [k \in {} |-> [val |-> NoRoute, ttl |-> 0]]

\* Concurrent callers of the one Service.
NumProcs == 2
Procs == 1..NumProcs

\* A caller: the operation it runs, the statement it is at, its argument
\* (a path or a route) and the list it holds in the local variable routes.
Idle == [op |-> "idle", pc |-> "idle", path |-> "", route |-> NoRoute, routes |-> <<>>]

NoOperation(op) ==
    [op |-> op, path |-> "", method |-> "", preKeys |-> {},
     err |-> NIL, route |-> NoRoute, routes |-> <<>>, allowed |-> FALSE,
     calls |-> <<>>, failed |-> {}]

Init ==
    /\ cache = EmptyCache
    /\ repo = <<>>
    /\ retired = [r \in {} |-> 0]
    /\ last = NoOperation("none")
    /\ callers = [p \in Procs |-> Idle]

\* ------------------------------------------------------------------ actions

\* The sets of failing call sites an operation is run with.
Faults(sites) == { f \in SUBSET sites : Cardinality(f) <= MaxFaults }

DoGetRoutes ==
    \E f \in Faults(GetRoutesSites) :
        Commit("GetRoutes", "", "", GetRoutes(cache, repo, f), f)

DoGetRouteByPath ==
    \E path \in Paths, f \in Faults(GetRouteByPathSites) :
        Commit("GetRouteByPath", path, "", GetRouteByPath(cache, repo, path, f), f)

DoClearCache ==
    \E f \in Faults(ClearCacheSites(repo)) :
        Commit("ClearCache", "", "", ClearCache(cache, repo, f), f)

DoAddRoute ==
    \E route \in RouteInputs, f \in Faults({"repo", "delList"}) :
        Commit("AddRoute", route.path, "", AddRoute(cache, repo, route, f), f)

DoUpdateRoute ==
    \E route \in RouteInputs, f \in Faults(MutationSites) :
        Commit("UpdateRoute", route.path, "", UpdateRoute(cache, repo, route, f), f)

DoDeleteRoute ==
    \E path \in Patterns, f \in Faults(MutationSites) :
        Commit("DeleteRoute", path, "", DeleteRoute(cache, repo, path, f), f)

DoUpdateMetrics ==
    \E path \in MetricPaths, f \in Faults({"repo"}) :
        /\ \A i \in 1..Len(repo) : repo[i].path = path => repo[i].callCount < MaxCalls
        /\ Commit("UpdateMetrics", path, "",
                  UpdateMetrics(cache, repo, path, CallIncrement,
                                ResponseTimeIncrement, f), f)

DoIsMethodAllowed ==
    \E path \in Paths, method \in Methods, f \in Faults(GetRouteByPathSites) :
        Commit("IsMethodAllowed", path, method,
               IsMethodAllowed(cache, repo, path, method, f), f)

Next ==
    \/ DoGetRoutes
    \/ DoGetRouteByPath
    \/ DoClearCache
    \/ DoAddRoute
    \/ DoUpdateRoute
    \/ DoDeleteRoute
    \/ DoUpdateMetrics
    \/ DoIsMethodAllowed

Spec == Init /\ [][Next]_vars

\* ------------------------------------------------------------------ time
\* SpecTTL: the service over a repository that holds the wildcard route,
\* with the minutes passing between the operations.

Tick ==
    /\ cache' = CacheExpire(cache)
    /\ repo' = repo
    /\ last' = NoOperation("Tick")
    /\ retired' = Retire(retired, repo, repo, CacheExpire(cache), NoOperation("Tick"), 1)
    /\ UNCHANGED callers

InitTTL ==
    /\ cache = EmptyCache
    /\ repo = <<Route("/a/*", "http://s1", {"GET", "POST"}, TRUE)>>
    /\ retired = [r \in {} |-> 0]
    /\ last = NoOperation("none")
    /\ callers = [p \in Procs |-> Idle]

NextTTL ==
    \/ Tick
    \/ DoGetRoutes
    \/ DoGetRouteByPath
    \/ DoUpdateRoute
    \/ DoDeleteRoute

SpecTTL == InitTTL /\ [][NextTTL]_vars

\* ------------------------------------------------------------------ concurrency
\* SpecConc: callers run the operations concurrently, one cache or
\* repository call at a time; every call succeeds unless the repository
\* refuses the path, and no entry expires.

At(p, op, pc) == callers[p].op = op /\ callers[p].pc = pc

Goto(p, pc) == callers' = [callers EXCEPT ![p].pc = pc]
Return(p) == callers' = [callers EXCEPT ![p] = Idle]

Shared == <<last, retired>>

\* A caller enters an operation.
Begin(p) ==
    /\ callers[p] = Idle
    /\ \/ callers' = [callers EXCEPT ![p] = [Idle EXCEPT !.op = "GetRoutes", !.pc = "getList"]]
       \/ \E path \in Paths :
            callers' = [callers EXCEPT ![p] =
                [Idle EXCEPT !.op = "GetRouteByPath", !.pc = "getRoute", !.path = path]]
       \/ \E route \in RouteInputs, op \in {"AddRoute", "UpdateRoute"} :
            callers' = [callers EXCEPT ![p] =
                [Idle EXCEPT !.op = op, !.pc = "repo", !.path = route.path, !.route = route]]
       \/ \E path \in Patterns :
            callers' = [callers EXCEPT ![p] =
                [Idle EXCEPT !.op = "DeleteRoute", !.pc = "repo", !.path = path]]
    /\ UNCHANGED <<cache, repo, Shared>>

\* GetRoutes: s.cache.Get(ctx, "routes", &routes), return on a hit.
GetRoutesGet(p) ==
    /\ At(p, "GetRoutes", "getList")
    /\ IF CacheFound(cache, ListKey) THEN Return(p) ELSE Goto(p, "load")
    /\ UNCHANGED <<cache, repo, Shared>>

\* GetRoutes: routes, err = s.repo.GetRoutes(ctx).
GetRoutesLoad(p) ==
    /\ At(p, "GetRoutes", "load")
    /\ callers' = [callers EXCEPT ![p].pc = "setList", ![p].routes = repo]
    /\ UNCHANGED <<cache, repo, Shared>>

\* GetRoutesSet with the write skipped when the key is already present.
GetRoutesSetIfAbsent(p) ==
    /\ At(p, "GetRoutes", "setList")
    /\ cache' = IF CacheFound(cache, ListKey) THEN cache
                ELSE CacheSet(cache, ListKey, callers[p].routes, TTL)
    /\ Return(p)
    /\ UNCHANGED <<repo, Shared>>

\* GetRoutes: s.cache.Set(ctx, "routes", routes, 5*time.Minute), return.
GetRoutesSet(p) ==
    /\ At(p, "GetRoutes", "setList")
    /\ cache' = CacheSet(cache, ListKey, callers[p].routes, TTL)
    /\ Return(p)
    /\ UNCHANGED <<repo, Shared>>

\* GetRouteByPath: s.cache.Get(ctx, "route:"+path, &route), return on a hit.
ByPathGetRoute(p) ==
    /\ At(p, "GetRouteByPath", "getRoute")
    /\ IF CacheFound(cache, RouteKey(callers[p].path)) THEN Return(p) ELSE Goto(p, "getList")
    /\ UNCHANGED <<cache, repo, Shared>>

\* GetRouteByPath: s.cache.Get(ctx, "routes", &routes).
ByPathGetList(p) ==
    /\ At(p, "GetRouteByPath", "getList")
    /\ IF CacheFound(cache, ListKey)
       THEN callers' = [callers EXCEPT ![p].pc = "scan", ![p].routes = cache[ListKey].val]
       ELSE Goto(p, "load")
    /\ UNCHANGED <<cache, repo, Shared>>

\* GetRouteByPath: routes, err = s.repo.GetRoutes(ctx).
ByPathLoad(p) ==
    /\ At(p, "GetRouteByPath", "load")
    /\ callers' = [callers EXCEPT ![p].pc = "setList", ![p].routes = repo]
    /\ UNCHANGED <<cache, repo, Shared>>

\* GetRouteByPath: s.cache.Set(ctx, "routes", routes, 5*time.Minute).
ByPathSetList(p) ==
    /\ At(p, "GetRouteByPath", "setList")
    /\ cache' = CacheSet(cache, ListKey, callers[p].routes, TTL)
    /\ Goto(p, "scan")
    /\ UNCHANGED <<repo, Shared>>

\* GetRouteByPath: the loop over routes, the Set of the first match, return.
ByPathScan(p) ==
    /\ At(p, "GetRouteByPath", "scan")
    /\ LET i == FirstMatch(callers[p].routes, callers[p].path)
       IN  cache' = IF i = 0 THEN cache
                    ELSE CacheSet(cache, RouteKey(callers[p].path), callers[p].routes[i], TTL)
    /\ Return(p)
    /\ UNCHANGED <<repo, Shared>>

\* AddRoute, UpdateRoute, DeleteRoute: the repository call, return on its error.
MutateRepo(p) ==
    /\ callers[p].pc = "repo"
    /\ \/ /\ callers[p].op = "AddRoute"
          /\ IF callers[p].path \in PathsOf(repo)
             THEN repo' = repo /\ Return(p)
             ELSE repo' = RepoAdd(repo, callers[p].route) /\ Goto(p, "delList")
       \/ /\ callers[p].op = "UpdateRoute"
          /\ IF callers[p].path \notin PathsOf(repo)
             THEN repo' = repo /\ Return(p)
             ELSE repo' = RepoUpdate(repo, callers[p].route) /\ Goto(p, "delRoute")
       \/ /\ callers[p].op = "DeleteRoute"
          /\ IF callers[p].path \notin PathsOf(repo)
             THEN repo' = repo /\ Return(p)
             ELSE repo' = RepoDelete(repo, callers[p].path) /\ Goto(p, "delRoute")
    /\ UNCHANGED <<cache, Shared>>

\* UpdateRoute, DeleteRoute: s.cache.Delete(ctx, "route:"+path).
InvalidateRoute(p) ==
    /\ callers[p].pc = "delRoute"
    /\ cache' = CacheDelete(cache, RouteKey(callers[p].path))
    /\ Goto(p, "delList")
    /\ UNCHANGED <<repo, Shared>>

\* AddRoute, UpdateRoute, DeleteRoute: s.cache.Delete(ctx, "routes"), return.
InvalidateList(p) ==
    /\ callers[p].pc = "delList"
    /\ cache' = CacheDelete(cache, ListKey)
    /\ Return(p)
    /\ UNCHANGED <<repo, Shared>>

NextConc ==
    \E p \in Procs :
        \/ Begin(p)
        \/ GetRoutesGet(p)
        \/ GetRoutesLoad(p)
        \/ GetRoutesSet(p)
        \/ ByPathGetRoute(p)
        \/ ByPathGetList(p)
        \/ ByPathLoad(p)
        \/ ByPathSetList(p)
        \/ ByPathScan(p)
        \/ MutateRepo(p)
        \/ InvalidateRoute(p)
        \/ InvalidateList(p)

SpecConc == Init /\ [][NextConc]_vars

\* ------------------------------------------------------------------ properties

NoMatch(routes, path) == \A i \in 1..Len(routes) : ~MatchRoutePath(routes[i].path, path)
RepoCalls(calls) == { i \in 1..Len(calls) : calls[i][1] = "repo.GetRoutes" }
CacheSites == {"getRoute", "getList", "setList", "setRoute", "delList", "delRoute"}
    \cup { RouteKey(p) : p \in Patterns }

\* C1: after an UpdateRoute or DeleteRoute that returned nil with every
\* cache call succeeding, the "routes" key is not readable and a GetRoutes
\* run in that state returns the repository's current list.
C1_MutationInvalidatesList ==
    (last.op \in {"UpdateRoute", "DeleteRoute"} /\ last.err = NIL /\ last.failed = {})
    => /\ ~CacheFound(cache, ListKey)
       /\ LET o == GetRoutes(cache, repo, {})
          IN  o.err = NIL /\ o.routes = repo

C1_Witness ==
    /\ last.op = "DeleteRoute" /\ last.err = NIL /\ last.failed = {}
    /\ ListKey \in last.preKeys
    /\ Len(repo) > 0

\* C2: a GetRouteByPath that met a failing cache call and no repository
\* failure returns what GetRouteByPath returns over an empty working cache.
C2_CacheFailureKeepsResult ==
    (last.op = "GetRouteByPath" /\ last.failed # {} /\ last.failed \subseteq CacheSites)
    => LET e == GetRouteByPath(EmptyCache, repo, last.path, {})
       IN  last.err = e.err /\ last.route = e.route

\* C3: a GetRoutes whose cache read or cache write-back failed returns the
\* repository's list and no error.
C3_GetRoutesCacheErrorIsMiss ==
    (last.op = "GetRoutes" /\ last.failed # {} /\ last.failed \subseteq CacheSites)
    => last.err = NIL /\ last.routes = repo

\* C4: no operation returns an error produced by the cache: the error is
\* nil, RouteNotFound or the repository's.
C4_NoCacheErrorReturned ==
    last.err \in {NIL, ErrRouteNotFound, RepositoryError}

\* C5: after a ClearCache that returned nil, a GetRouteByPath for any path
\* that had an individual entry goes past the individual cache.
C5_ClearCacheClearsIndividual ==
    (last.op = "ClearCache" /\ last.err = NIL /\ last.failed = {})
    => \A p \in Paths :
          RouteKey(p) \in last.preKeys
          => Len(GetRouteByPath(cache, repo, p, {}).calls) > 1

\* C6 as stated: a GetRouteByPath for a path that no registered pattern
\* matches, with the repository answering, fails with RouteNotFound.
C6_UnmatchedPathNotFound ==
    (last.op = "GetRouteByPath" /\ NoMatch(repo, last.path) /\ "repo" \notin last.failed)
    => last.err = ErrRouteNotFound

\* C6 amended: a GetRouteByPath for a path that no registered pattern matches
\* returns no route when neither an individual entry for the path nor a
\* cached list holding a match was readable; it fails with RouteNotFound, or
\* with the repository's error when the list load failed.
C6_UnmatchedPathNotFoundUncached ==
    (/\ last.op = "GetRouteByPath"
     /\ NoMatch(repo, last.path)
     /\ RouteKey(last.path) \notin last.preKeys
     /\ (ListKey \in last.preKeys => NoMatch(cache[ListKey].val, last.path)))
    => /\ last.route = NoRoute
       /\ last.err \in {ErrRouteNotFound, RepositoryError}
       /\ (last.err = RepositoryError <=> "repo" \in last.failed)

C6_Witness ==
    /\ last.op = "GetRouteByPath" /\ last.path = "/a/c"
    /\ Len(repo) > 0 /\ NoMatch(repo, last.path)
    /\ RouteKey(last.path) \notin last.preKeys
    /\ ListKey \in last.preKeys /\ NoMatch(cache[ListKey].val, last.path)
    /\ last.err = ErrRouteNotFound

\* C9: with route:p readable and its Get succeeding, GetRouteByPath(p)
\* returns the cached route after that one call: no matcher call, no
\* repository call, no read of the list key, no cache write.
C9_IndividualHitShortCircuits ==
    /\ (last.op = "GetRouteByPath" /\ RouteKey(last.path) \in last.preKeys
            /\ "getRoute" \notin last.failed)
       => /\ last.err = NIL
          /\ last.route = cache[RouteKey(last.path)].val
          /\ last.calls = <<Call("cache.Get", RouteKey(last.path))>>
    /\ \A p \in Paths, f \in Faults(GetRouteByPathSites \ {"getRoute"}) :
          CacheFound(cache, RouteKey(p))
          => LET o == GetRouteByPath(cache, repo, p, f)
             IN  /\ o.cache = cache /\ o.repo = repo
                 /\ o.err = NIL /\ o.route = cache[RouteKey(p)].val
                 /\ o.calls = <<Call("cache.Get", RouteKey(p))>>

C9_Witness ==
    /\ last.op = "GetRouteByPath" /\ last.path = "/a/c"
    /\ RouteKey(last.path) \in last.preKeys
    /\ last.failed = {}
    /\ last.route.path = "/a/*"
    /\ ~CacheFound(cache, ListKey)

\* C10: a GetRouteByPath(p) that returned a route with every cache call
\* succeeding leaves that route under route:<p>, and a second
\* GetRouteByPath(p) returns the same route with no repository call.
C10_MatchCachedUnderRequestedPath ==
    (last.op = "GetRouteByPath" /\ last.err = NIL /\ last.failed = {})
    => /\ CacheFound(cache, RouteKey(last.path))
       /\ cache[RouteKey(last.path)].val = last.route
       /\ LET o == GetRouteByPath(cache, repo, last.path, {})
          IN  o.err = NIL /\ o.route = last.route /\ RepoCalls(o.calls) = {}

C10_Witness ==
    /\ last.op = "GetRouteByPath" /\ last.err = NIL /\ last.failed = {}
    /\ RouteKey(last.path) \notin last.preKeys
    /\ last.path = "/a/c" /\ last.route.path = "/a/*"
    /\ RepoCalls(last.calls) # {}

\* Minutes since the route r left the repository, -1 while it is in it.
StaleAge(r) == IF r \in DOMAIN retired THEN retired[r] ELSE -1

\* The key written at the call site named.
SetSite(key) == IF key = ListKey THEN "setList" ELSE "setRoute"

\* C7 as stated: GetRoutes and GetRouteByPath return no route that left the
\* repository more than one TTL before.
C7_StaleWithinOneTTL ==
    /\ (last.op = "GetRouteByPath" /\ last.err = NIL) => StaleAge(last.route) <= TTL
    /\ (last.op = "GetRoutes" /\ last.err = NIL)
       => \A r \in Range(last.routes) : StaleAge(r) <= TTL

\* C7 amended: every cache Set of the Service stores its entry with the one
\* TTL; GetRoutes returns no route that left the repository a TTL or more
\* before, and GetRouteByPath none that left it two TTLs or more before.
C7_StaleWithinTwoTTL ==
    /\ \A i \in 1..Len(last.calls) :
          (last.calls[i][1] = "cache.Set" /\ SetSite(last.calls[i][2]) \notin last.failed)
          => cache[last.calls[i][2]].ttl = TTL
    /\ \A k \in DOMAIN cache : cache[k].ttl \in 1..TTL
    /\ (last.op = "GetRoutes" /\ last.err = NIL)
       => \A r \in Range(last.routes) : StaleAge(r) < TTL
    /\ (last.op = "GetRouteByPath" /\ last.err = NIL) => StaleAge(last.route) < 2 * TTL

C7_Witness ==
    /\ last.op = "GetRouteByPath" /\ last.err = NIL
    /\ StaleAge(last.route) > TTL
    /\ last.calls = <<Call("cache.Get", RouteKey(last.path))>>

AllReturned == \A p \in Procs : callers[p] = Idle

\* C8: once every concurrent caller has returned, the "routes" entry is
\* absent or holds the repository's current list.
C8_ListEntryCurrentWhenQuiet ==
    AllReturned => (CacheFound(cache, ListKey) => cache[ListKey].val = repo)

\* The list a GetRouteByPath that went past the individual cache scanned:
\* the cached list when the key was readable, else the repository's.
ScannedList == IF ListKey \in last.preKeys THEN cache[ListKey].val ELSE repo

\* C11: a GetRouteByPath(p) that went past the individual cache and obtained
\* a list from the list cache or the repository returns the lowest-index
\* route of that list whose pattern matches p, whatever follows it, and
\* RouteNotFound exactly when no route of the list matches.
C11_FirstMatchWins ==
    (/\ last.op = "GetRouteByPath"
     /\ (RouteKey(last.path) \notin last.preKeys \/ "getRoute" \in last.failed)
     /\ last.failed \cap {"getList", "repo"} = {})
    => /\ last.err \in {NIL, ErrRouteNotFound}
       /\ last.err = NIL
          => \E i \in 1..Len(ScannedList) :
                /\ last.route = ScannedList[i]
                /\ MatchRoutePath(ScannedList[i].path, last.path)
                /\ \A j \in 1..(i - 1) : ~MatchRoutePath(ScannedList[j].path, last.path)
       /\ last.err = ErrRouteNotFound
          => /\ NoMatch(ScannedList, last.path)
             /\ last.route = NoRoute

C11_Witness ==
    /\ last.op = "GetRouteByPath" /\ last.path = "/a/b"
    /\ RouteKey(last.path) \notin last.preKeys /\ last.failed = {}
    /\ Len(ScannedList) = 2
    /\ ScannedList[1].path = "/a/*" /\ ScannedList[2].path = "/a/b"
    /\ last.err = NIL /\ last.route = ScannedList[1]

\* The outcome o of a mutation of the route registered under path leaves
\* every individual entry of another key as it was, and a GetRouteByPath
\* for its path still returns the entry's route.
OtherEntriesKept(o, path) ==
    o.err = NIL
    => \A p \in Paths :
          (RouteKey(p) # RouteKey(path) /\ CacheFound(cache, RouteKey(p)))
          => /\ CacheFound(o.cache, RouteKey(p))
             /\ o.cache[RouteKey(p)] = cache[RouteKey(p)]
             /\ LET g == GetRouteByPath(o.cache, o.repo, p, {})
                IN  g.err = NIL /\ g.route = cache[RouteKey(p)].val

\* C12: an accepted UpdateRoute or DeleteRoute issues cache deletes for
\* route:<registered path> and "routes" only; an individual entry stored
\* under another requested path stays as it was, and GetRouteByPath for that
\* path goes on returning the route it held before the mutation.
C12_OtherEntriesSurvive ==
    /\ (last.op \in {"UpdateRoute", "DeleteRoute"} /\ last.err = NIL)
       => /\ \A i \in 1..Len(last.calls) :
                last.calls[i][1] = "cache.Delete"
                => last.calls[i][2] \in {RouteKey(last.path), ListKey}
          /\ \A k \in last.preKeys \ {RouteKey(last.path), ListKey} :
                CacheFound(cache, k)
    /\ \A route \in RouteInputs, f \in Faults(MutationSites) :
          OtherEntriesKept(UpdateRoute(cache, repo, route, f), route.path)
    /\ \A path \in Patterns, f \in Faults(MutationSites) :
          OtherEntriesKept(DeleteRoute(cache, repo, path, f), path)

C12_Witness ==
    /\ last.op = "UpdateRoute" /\ last.path = "/a/*"
    /\ last.err = NIL /\ last.failed = {}
    /\ CacheFound(cache, RouteKey("/a/c"))
    /\ cache[RouteKey("/a/c")].val.path = "/a/*"
    /\ cache[RouteKey("/a/c")].val \notin Range(repo)
    /\ GetRouteByPath(cache, repo, "/a/c", {}).route = cache[RouteKey("/a/c")].val

RepoFns == {"repo.GetRoutes", "repo.AddRoute", "repo.UpdateRoute",
            "repo.DeleteRoute", "repo.UpdateMetrics"}
CacheFns == {"cache.Get", "cache.Set", "cache.Delete"}

\* The outcome o of a mutation the repository refused: its error, no cache
\* call, cache and repository as they were.
Refused(o) ==
    /\ o.err = RepositoryError
    /\ o.cache = cache /\ o.repo = repo
    /\ Len(o.calls) = 1 /\ o.calls[1][1] \in RepoFns

\* C13: an operation whose repository call failed returns the repository's
\* error and no value, having called the repository once, as its last call;
\* AddRoute, UpdateRoute, DeleteRoute and UpdateMetrics then made no cache
\* call and left the cache as it was.
C13_RepositoryFailureIsFatal ==
    /\ "repo" \in last.failed
       => /\ last.err = RepositoryError
          /\ last.route = NoRoute /\ last.routes = <<>> /\ last.allowed = FALSE
          /\ Cardinality({ i \in 1..Len(last.calls) : last.calls[i][1] \in RepoFns }) = 1
          /\ last.calls[Len(last.calls)][1] \in RepoFns
          /\ last.op \in {"AddRoute", "UpdateRoute", "DeleteRoute", "UpdateMetrics"}
             => /\ Len(last.calls) = 1
                /\ DOMAIN cache = last.preKeys
    /\ \A route \in RouteInputs :
          /\ Refused(AddRoute(cache, repo, route, {"repo"}))
          /\ Refused(UpdateRoute(cache, repo, route, {"repo"}))
    /\ \A path \in Patterns : Refused(DeleteRoute(cache, repo, path, {"repo"}))
    /\ \A path \in MetricPaths :
          Refused(UpdateMetrics(cache, repo, path, CallIncrement,
                                ResponseTimeIncrement, {"repo"}))

C13_Witness ==
    /\ last.op = "UpdateRoute" /\ "repo" \in last.failed
    /\ last.path \in PathsOf(repo)
    /\ last.err = RepositoryError
    /\ CacheFound(cache, ListKey) /\ CacheFound(cache, RouteKey("/a/b"))

\* C14: a ClearCache whose delete of "routes" and list load succeeded
\* returns nil after one delete of route:<path> per registered route, in
\* list order, whichever of them failed; "routes" is gone, and so is
\* route:<path> of every registered path whose delete succeeded.
C14_ClearCacheSweepsAll ==
    (last.op = "ClearCache" /\ last.failed \cap {"delList", "repo"} = {})
    => /\ last.err = NIL
       /\ last.calls = <<Call("cache.Delete", ListKey), Call("repo.GetRoutes", "")>>
             \o [i \in 1..Len(repo) |-> Call("cache.Delete", RouteKey(repo[i].path))]
       /\ ~CacheFound(cache, ListKey)
       /\ \A p \in PathsOf(repo) :
             RouteKey(p) \notin last.failed => ~CacheFound(cache, RouteKey(p))

C14_Witness ==
    /\ last.op = "ClearCache" /\ last.err = NIL
    /\ Len(repo) = 2 /\ repo[1].path = "/a/*" /\ repo[2].path = "/a/b"
    /\ last.failed = {RouteKey("/a/*")}
    /\ RouteKey("/a/b") \in last.preKeys
    /\ ~CacheFound(cache, RouteKey("/a/b"))

\* C15: IsMethodAllowed(p, m) returns the error of GetRouteByPath(p) and its
\* cache effects; it answers true exactly when the lookup succeeded and m is
\* among the route's methods, false with no error when the route was found
\* and m is not (an empty method set included), false with the error
\* otherwise.
C15_IsMethodAllowedFollowsLookup ==
    /\ last.op = "IsMethodAllowed"
       => /\ last.err = NIL => last.allowed = (last.method \in last.route.methods)
          /\ last.err # NIL => ~last.allowed
    /\ \A p \in Paths, m \in Methods \cup {"GET"}, f \in Faults(GetRouteByPathSites) :
          LET g == GetRouteByPath(cache, repo, p, f)
              a == IsMethodAllowed(cache, repo, p, m, f)
          IN  /\ a.err = g.err
              /\ a.allowed = (g.err = NIL /\ m \in g.route.methods)
              /\ a.cache = g.cache /\ a.repo = g.repo /\ a.calls = g.calls

C15_Witness ==
    /\ last.op = "IsMethodAllowed" /\ last.err = NIL
    /\ last.route.path = "/a/*" /\ last.route.methods = {}
    /\ ~last.allowed
    /\ IsMethodAllowed(cache, repo, "/a/b", "GET", {}).allowed
    /\ GetRouteByPath(cache, repo, "/a/b", {}).route.methods = {"GET"}

\* C16: there is no single flight. A caller that missed "routes" and loaded
\* the list writes it whatever another caller wrote meanwhile: each Set of
\* the list key leaves the list of the caller that issued it, so the entry
\* holds the list written last.
C16_LastSetWins ==
    [][\A p \in Procs :
          (callers[p].pc = "setList" /\ callers'[p].pc # "setList")
          => /\ CacheFound(cache', ListKey)
             /\ cache'[ListKey].val = callers[p].routes]_vars

\* Two callers have both missed "routes" and both loaded the list from the
\* repository; each is about to Set the key.
C16_Witness ==
    /\ At(1, "GetRouteByPath", "setList")
    /\ At(2, "GetRoutes", "setList")
    /\ ~CacheFound(cache, ListKey)
    /\ Len(callers[1].routes) > 0 /\ callers[1].routes = callers[2].routes

\* The outcome o of AddRoute(route) changed no individual entry, and with
\* its delete succeeding a GetRoutes after it returns the added route.
IndividualEntriesKept(o, route) ==
    o.err = NIL
    => /\ DOMAIN o.cache \ {ListKey} = DOMAIN cache \ {ListKey}
       /\ \A k \in DOMAIN cache \ {ListKey} : o.cache[k] = cache[k]
       /\ o.failed = {}
          => LET g == GetRoutes(o.cache, o.repo, {})
             IN  g.err = NIL /\ route \in Range(g.routes)

\* C17: an accepted AddRoute calls the repository and then deletes "routes",
\* nothing else: no individual entry appears, disappears or changes, and
\* with the delete succeeding a GetRoutes after it returns a list that holds
\* the added route.
C17_AddRouteTouchesListOnly ==
    /\ (last.op = "AddRoute" /\ last.err = NIL)
       => /\ last.calls = <<Call("repo.AddRoute", last.path),
                            Call("cache.Delete", ListKey)>>
          /\ DOMAIN cache \ {ListKey} = last.preKeys \ {ListKey}
          /\ last.failed = {}
             => \E r \in Range(GetRoutes(cache, repo, {}).routes) : r.path = last.path
    /\ \A route \in RouteInputs, f \in Faults({"repo", "delList"}) :
          IndividualEntriesKept(AddRoute(cache, repo, route, f), route)

C17_Witness ==
    /\ last.op = "AddRoute" /\ last.path = "/a/b"
    /\ last.err = NIL /\ last.failed = {}
    /\ ListKey \in last.preKeys
    /\ CacheFound(cache, RouteKey("/a/b"))
    /\ cache[RouteKey("/a/b")].val.path = "/a/*"

\* C18: UpdateMetrics makes one call, the repository's metrics update, and
\* no cache call; the cache is as it was, so a cached route keeps the
\* counters it was cached with.
C18_UpdateMetricsLeavesCache ==
    /\ last.op = "UpdateMetrics"
       => /\ last.calls = <<Call("repo.UpdateMetrics", last.path)>>
          /\ DOMAIN cache = last.preKeys
    /\ \A path \in MetricPaths, f \in Faults({"repo"}) :
          LET o == UpdateMetrics(cache, repo, path, CallIncrement,
                                 ResponseTimeIncrement, f)
          IN  /\ o.cache = cache
              /\ Len(o.calls) = 1
              /\ o.calls[1][1] = "repo.UpdateMetrics"
              /\ \A i \in 1..Len(o.calls) : o.calls[i][1] \notin CacheFns

C18_Witness ==
    /\ last.op = "UpdateMetrics" /\ last.err = NIL
    /\ \E i \in 1..Len(repo) :
          /\ repo[i].path = last.path
          /\ repo[i].callCount = CallIncrement
          /\ repo[i].totalResponseTime = ResponseTimeIncrement
    /\ CacheFound(cache, RouteKey("/a/b"))
    /\ cache[RouteKey("/a/b")].val.path = last.path
    /\ cache[RouteKey("/a/b")].val.callCount = 0
    /\ CacheFound(cache, ListKey)

\* C19: every entry under route:p holds a route whose pattern matches p and
\* that the repository holds or held; every route GetRouteByPath(p) returns
\* has a pattern that matches p.
C19_IndividualEntriesMatch ==
    /\ \A k \in DOMAIN cache : k = ListKey \/ \E p \in Paths : k = RouteKey(p)
    /\ \A p \in Paths :
          CacheFound(cache, RouteKey(p))
          => /\ MatchRoutePath(cache[RouteKey(p)].val.path, p)
             /\ cache[RouteKey(p)].val \in Range(repo) \cup DOMAIN retired
    /\ (last.op = "GetRouteByPath" /\ last.err = NIL)
       => MatchRoutePath(last.route.path, last.path)

C19_Witness ==
    /\ last.op = "GetRouteByPath" /\ last.path = "/a/c" /\ last.err = NIL
    /\ CacheFound(cache, RouteKey("/a/c"))
    /\ last.route = cache[RouteKey("/a/c")].val
    /\ last.route \in DOMAIN retired
    /\ Len(repo) > 0

\* A GetRouteByPath that failed wrote no individual entry.
FailedLookupNotCached ==
    /\ \A i \in 1..Len(last.calls) :
          ~(last.calls[i][1] = "cache.Set" /\ last.calls[i][2] = RouteKey(last.path))
    /\ CacheFound(cache, RouteKey(last.path)) <=> RouteKey(last.path) \in last.preKeys

\* C20 as stated: a GetRouteByPath(p) that ended in RouteNotFound or in the
\* repository's error wrote no route:p entry, and after an AddRoute of a
\* route matching p whose invalidation succeeded, GetRouteByPath(p) returns
\* the added route.
C20_AddedRouteReturnedAfterFailure ==
    (last.op = "GetRouteByPath" /\ last.err \in {ErrRouteNotFound, RepositoryError})
    => /\ FailedLookupNotCached
       /\ \A route \in RouteInputs :
             MatchRoutePath(route.path, last.path)
             => LET a == AddRoute(cache, repo, route, {})
                    g == GetRouteByPath(a.cache, a.repo, last.path, {})
                IN  a.err = NIL => (g.err = NIL /\ g.route = route)

\* After AddRoute(route) on the state reached, GetRouteByPath(p) returns a
\* route matching p: the entry under route:p if there is one, else the first
\* match of the repository's list, the added route when no other precedes it.
MatchFoundAfterAdd(route, p) ==
    LET a == AddRoute(cache, repo, route, {})
        g == GetRouteByPath(a.cache, a.repo, p, {})
    IN  a.err = NIL
        => /\ g.err = NIL
           /\ MatchRoutePath(g.route.path, p)
           /\ CacheFound(cache, RouteKey(p)) => g.route = cache[RouteKey(p)].val
           /\ ~CacheFound(cache, RouteKey(p))
              => \E i \in 1..Len(a.repo) :
                    /\ g.route = a.repo[i]
                    /\ \A j \in 1..(i - 1) : ~MatchRoutePath(a.repo[j].path, p)
           /\ (~CacheFound(cache, RouteKey(p)) /\ NoMatch(repo, p)) => g.route = route

\* C20 amended: a failed GetRouteByPath(p) wrote no route:p entry, and after
\* an AddRoute of a route matching p whose invalidation succeeded,
\* GetRouteByPath(p) does not fail with RouteNotFound: it returns a route
\* matching p, the added one when no route:p entry is readable and no route
\* registered before it matches p.
C20_MatchReturnedAfterFailure ==
    /\ (last.op = "GetRouteByPath" /\ last.err \in {ErrRouteNotFound, RepositoryError})
       => /\ FailedLookupNotCached
          /\ \A route \in RouteInputs :
                MatchRoutePath(route.path, last.path)
                => MatchFoundAfterAdd(route, last.path)
    /\ (last.op = "AddRoute" /\ last.err = NIL /\ last.failed = {})
       => \A p \in Paths :
             MatchRoutePath(last.path, p)
             => LET g == GetRouteByPath(cache, repo, p, {})
                IN  g.err = NIL /\ MatchRoutePath(g.route.path, p)

C20_Witness ==
    /\ last.op = "GetRouteByPath" /\ last.path = "/a/c"
    /\ last.err = ErrRouteNotFound /\ last.failed = {}
    /\ Len(repo) > 0
    /\ CacheFound(cache, ListKey)
    /\ LET route == Route("/a/*", "http://s1", {"GET", "POST"}, TRUE)
           a == AddRoute(cache, repo, route, {})
       IN  /\ a.err = NIL
           /\ GetRouteByPath(a.cache, a.repo, "/a/c", {}).route = route

====
